---- MODULE Spec2Model ----
(***************************************************************************)
(* Galaxy composition and terrain layering of MapService                   *)
(* (src/server/services/map.ts): generateStars followed by the seven       *)
(* passes of generateTerrain.  One game-creation workflow is modelled; it  *)
(* may call generateTerrain again on the same stars, and it may replay the *)
(* whole generation from the same seed.                                    *)
(***************************************************************************)
EXTENDS Integers, Sequences, FiniteSets, TLC

(* ------------------------------ bounds --------------------------------- *)

\* Largest number of plain (neither home nor linked) locations a strategy returns.
MaxPlain == 3
\* Seeds of the passed RandomGen range over 0..MaxSeed.
MaxSeed == 1
\* Largest number of generateTerrain calls on one star collection.
MaxTerrainCalls == 2

\* Largest number of satellites a strategy links to one home location.
MaxLinked == 2

\* Most locations in an array passed to the geometry queries.
MaxLocations == 3

\* Largest coordinate of a location passed to the geometry queries.
MaxCoordinate == 2

\* Most player slots of a game.
MaxPlayers == 3

\* Most GameService calls made on one game.
MaxCalls == 6

(* ------------------------- program constants --------------------------- *)

\* game.constants.star.resources.maxNaturalResources
MaxNaturalResources == 4

\* Modulus of the modelled generators (RandomGen and the random service).
RandMod == 16

\* "No star": the value of an unset wormHoleToStarId / ownedByPlayerId.
NoStar == 0

\* The name read past the end of the name pool (JavaScript undefined).
Undefined == 0

\* Passes with the black-hole pass ahead of the resource-overriding passes.
PassesBlackHolesFirst ==
    <<"gates", "wormholes", "blackholes", "nebulas", "asteroids", "binary", "pulsars">>

Passes == <<"gates", "wormholes", "nebulas", "asteroids", "binary", "blackholes", "pulsars">>

PassNames == {Passes[i] : i \in 1..Len(Passes)}

\* Percentages an enabled pass is run with; a setting of 0 disables its pass.
Percentages == {50, 100}

\* null: no user in a slot, a date not set, no winner.
Null == 0

\* game.settings.gameTime.speed, minutes between ticks.
GameSpeed == 10

\* Topology tags the workflow is started with; the last one is not supported.
GalaxyTypeInputs == {"circular-balanced", "custom", "hexagonal"}

VARIABLES
    settings,       \* game.settings: galaxyType, playerLimit, percentages, split mode
    starLocations,  \* what the coordinate strategy returns for these settings
    starNames,      \* what nameService.getRandomStarNames returns
    seed,           \* seed of the RandomGen passed as rand
    rand,           \* state of the RandomGen passed as rand
    randomService,  \* state of the generator behind this.randomService
    stars,          \* game.galaxy.stars
    homeStars,      \* ids of the home stars, in creation order
    linkedStars,    \* linkedStars[i]: ids of the satellites of homeStars[i]
    created,        \* Star Factory calls made by the last generateStars call
    pc,             \* position of the workflow
    error,          \* class of the error raised, "" while none
    entry,          \* stars as they were when the current generateTerrain call began
    terrainCalls,   \* generateTerrain calls made on the current stars
    prev,           \* stars at the end of the generation being replayed, <<>> if none
    locations,      \* the array handed to getGalaxyCenter / getGalaxyCenterOfMass
    passed,         \* that array as it was when the last query was called
    center,         \* what the last query returned
    query,          \* the last query called, "none" before the first
    gameDoc,        \* the game document GameService works on
    thrown,         \* class of the error the last GameService call threw, "" if none
    lastCall,       \* the last GameService call and its arguments
    clock           \* GameService calls made so far; the time of the next one

mapVars == <<settings, starLocations, starNames, seed, rand, randomService, stars,
             homeStars, linkedStars, created, pc, error, entry, terrainCalls, prev>>

geometryVars == <<locations, passed, center, query>>

gameVars == <<gameDoc, thrown, lastCall, clock>>

vars == <<mapVars, geometryVars, gameVars>>

(* ------------------------------ helpers -------------------------------- *)

Min(a, b) == IF a < b THEN a ELSE b

Max(a, b) == IF a > b THEN a ELSE b

Range(s) == {s[i] : i \in 1..Len(s)}

\* Array.prototype.slice(0, end): a negative end counts from the end of the array.
Slice(arr, end) ==
    LET stop == IF end < 0 THEN Max(Len(arr) + end, 0) ELSE Min(end, Len(arr))
    IN  SubSeq(arr, 1, stop)

(* ------------------- external collaborators of MapService -------------- *)

Resources(e, i, s) == [economy |-> e, industry |-> i, science |-> s]

\* Resources a strategy puts on a living and on a dead location.
LivingResources == Resources(2, 3, 4)

DeadResources == Resources(0, 0, 0)

Location(x, y, home, isLinked, linkedLocs, res) ==
    [x |-> x, y |-> y, homeStar |-> home, linked |-> isLinked,
     linkedLocations |-> linkedLocs, resources |-> res]

\* The j-th satellite location of home h.
Satellite(h, j) == Location(h, j, FALSE, TRUE, <<>>, LivingResources)

\* A strategy's output: nHome home locations, each with nLinked satellites, then
\* nPlain plain locations of which the first nDead are dead, then the satellites
\* once more as entries marked linked.
Layout(nHome, nLinked, nPlain, nDead) ==
    LET homes == [h \in 1..nHome |->
                    Location(h, 0, TRUE, FALSE,
                             [j \in 1..nLinked |-> Satellite(h, j)], LivingResources)]
        plains == [p \in 1..nPlain |->
                    Location(nHome + p, 0, FALSE, FALSE, <<>>,
                             IF p <= nDead THEN DeadResources ELSE LivingResources)]
        sats == [k \in 1..(nHome * nLinked) |->
                    Satellite(((k - 1) \div nLinked) + 1, ((k - 1) % nLinked) + 1)]
    IN  homes \o plains \o sats

\* Outputs the strategies are taken to return: a custom galaxy has no satellites,
\* a balanced one has one per home; an unsupported tag has no strategy.
Layouts(galaxyType, playerLimit) ==
    CASE galaxyType = "custom" ->
            {Layout(playerLimit, 0, nPlain, nDead) :
                nPlain \in (MaxPlain - 1)..MaxPlain, nDead \in 0..1}
      [] galaxyType = "circular-balanced" ->
            {Layout(playerLimit, 1, nPlain, nDead) :
                nPlain \in (MaxPlain - 1)..MaxPlain, nDead \in 0..1}
      [] OTHER -> {<<>>}

\* A strategy's output with its entries in another order and a satellite count per
\* home: the satellites as entries marked linked, the first plain location, the
\* home locations (home h with linkCounts[h] satellites), the other plain ones.
MixedLayout(linkCounts, nPlain) ==
    LET nHome == Len(linkCounts)
        home(h) == Location(h, 0, TRUE, FALSE,
                            [j \in 1..linkCounts[h] |-> Satellite(h, j)], LivingResources)
        plain(p) == Location(nHome + p, 0, FALSE, FALSE, <<>>, LivingResources)
        SatsUpTo[h \in 0..nHome] ==
            IF h = 0 THEN <<>>
            ELSE SatsUpTo[h - 1] \o [j \in 1..linkCounts[h] |-> Satellite(h, j)]
    IN  SatsUpTo[nHome]
        \o [p \in 1..Min(nPlain, 1) |-> plain(p)]
        \o [h \in 1..nHome |-> home(h)]
        \o [p \in 1..(nPlain - Min(nPlain, 1)) |-> plain(p + 1)]

\* Outputs the strategies are taken to return when star assembly is explored.
AssemblyLayouts(galaxyType, playerLimit) ==
    IF galaxyType \in {"custom", "circular-balanced"}
    THEN {MixedLayout(linkCounts, nPlain) :
              linkCounts \in [1..playerLimit -> 0..MaxLinked], nPlain \in 0..MaxPlain}
    ELSE {<<>>}

\* Number of stars generateStars materializes from a strategy output.
RequiredNames(locs) ==
    LET Need[i \in 0..Len(locs)] ==
            IF i = 0 THEN 0
            ELSE Need[i - 1]
                 + (IF locs[i].linked THEN 0
                    ELSE 1 + (IF locs[i].homeStar THEN Len(locs[i].linkedLocations) ELSE 0))
    IN  Need[Len(locs)]

\* nameService.getRandomStarNames: the k-th name of the pool is k.
NamePool(count) == [k \in 1..count |-> k]

\* starNames[index] with a zero-based index; undefined past the end.
NameAt(names, index) == IF index + 1 <= Len(names) THEN names[index + 1] ELSE Undefined

\* The star entity both factories build; ids are handed out in creation order.
NewStar(id, name, location, resources) ==
    [_id |-> id, name |-> name, location |-> [x |-> location.x, y |-> location.y],
     ownedByPlayerId |-> NoStar, naturalResources |-> resources,
     homeStar |-> location.homeStar,
     warpGate |-> FALSE, wormHoleToStarId |-> NoStar, isNebula |-> FALSE,
     isAsteroidField |-> FALSE, isBinaryStar |-> FALSE, isBlackHole |-> FALSE,
     isPulsar |-> FALSE]

\* starService.generateUnownedStar(name, location, resources)
GenerateUnownedStar(id, name, location, resources) == NewStar(id, name, location, resources)

\* starService.generateCustomGalaxyStar(name, location)
GenerateCustomGalaxyStar(id, name, location) == NewStar(id, name, location, location.resources)

\* starService.isDeadStar: a star without any natural resources.
IsDeadStar(s) ==
    /\ s.naturalResources.economy <= 0
    /\ s.naturalResources.industry <= 0
    /\ s.naturalResources.science <= 0

\* gameTypeService.isSplitResources(game)
IsSplitResources(game) == game.splitResources

(* ----------------------------- generateStars --------------------------- *)

SupportedGalaxyTypes ==
    {"circular", "spiral", "doughnut", "circular-balanced", "irregular", "custom"}

\* GenerateLocations with a default branch that falls back to a strategy.
GenerateLocationsDefaulting(game, locs) == [error |-> "", locations |-> locs]

\* The switch on galaxyType: the locations of the chosen strategy, or the error
\* of the default branch.
GenerateLocations(game, locs) ==
    CASE game.galaxyType = "circular" -> [error |-> "", locations |-> locs]
      [] game.galaxyType = "spiral" -> [error |-> "", locations |-> locs]
      [] game.galaxyType = "doughnut" -> [error |-> "", locations |-> locs]
      [] game.galaxyType = "circular-balanced" -> [error |-> "", locations |-> locs]
      [] game.galaxyType = "irregular" -> [error |-> "", locations |-> locs]
      [] game.galaxyType = "custom" -> [error |-> "", locations |-> locs]
      [] OTHER -> [error |-> "ValidationError", locations |-> <<>>]

\* One star from a location, by the factory the topology selects.
MakeStar(isCustomGalaxy, id, name, location) ==
    IF isCustomGalaxy
    THEN GenerateCustomGalaxyStar(id, name, location)
    ELSE GenerateUnownedStar(id, name, location, location.resources)

\* LinkedStarsOf taking the linked locations in reverse order.
LinkedStarsOfReversed(isCustomGalaxy, names, firstId, namesIndex, linkedLocations) ==
    [j \in 1..Len(linkedLocations) |->
        NewStar(firstId + j - 1, NameAt(names, namesIndex + j - 1),
                linkedLocations[Len(linkedLocations) + 1 - j],
                linkedLocations[Len(linkedLocations) + 1 - j].resources)]

\* LinkedStarsOf naming every satellite with the entry the index stands at.
LinkedStarsOfOneName(isCustomGalaxy, names, firstId, namesIndex, linkedLocations) ==
    [j \in 1..Len(linkedLocations) |->
        NewStar(firstId + j - 1, NameAt(names, namesIndex),
                linkedLocations[j], linkedLocations[j].resources)]

\* The stars of the linked locations of one home location; the first gets id
\* firstId and the name at namesIndex.
LinkedStarsOf(isCustomGalaxy, names, firstId, namesIndex, linkedLocations) ==
    [j \in 1..Len(linkedLocations) |->
        MakeStar(isCustomGalaxy, firstId + j - 1, NameAt(names, namesIndex + j - 1),
                 linkedLocations[j])]

\* The loop over unlinkedStars, from its i-th entry on, accumulating the result.
RECURSIVE CreateStars(_, _, _, _, _)
CreateStars(isCustomGalaxy, names, unlinked, i, acc) ==
    IF i > Len(unlinked) THEN acc
    ELSE
        LET starLocation == unlinked[i]
            id == Len(acc.stars) + 1
            star == MakeStar(isCustomGalaxy, id, NameAt(names, acc.starNamesIndex),
                             starLocation)
            linked == IF starLocation.homeStar
                      THEN LinkedStarsOf(isCustomGalaxy, names, id + 1,
                                         acc.starNamesIndex + 1,
                                         starLocation.linkedLocations)
                      ELSE <<>>
        IN  CreateStars(isCustomGalaxy, names, unlinked, i + 1,
                [stars |-> Append(acc.stars, star) \o linked,
                 homeStars |-> IF starLocation.homeStar
                               THEN Append(acc.homeStars, star._id)
                               ELSE acc.homeStars,
                 linkedStars |-> IF starLocation.homeStar
                                 THEN Append(acc.linkedStars,
                                             [j \in 1..Len(linked) |-> linked[j]._id])
                                 ELSE acc.linkedStars,
                 starNamesIndex |-> acc.starNamesIndex + 1 + Len(linked)])

\* GenerateStarsResult without the filter on linked locations.
GenerateStarsResultUnfiltered(game, names, locs) ==
    LET made == CreateStars(game.galaxyType = "custom", names, locs, 1,
                    [stars |-> <<>>, homeStars |-> <<>>, linkedStars |-> <<>>,
                     starNamesIndex |-> 0])
    IN  IF game.galaxyType \notin {"circular", "spiral", "doughnut", "circular-balanced",
                                   "irregular", "custom"}
        THEN [error |-> "ValidationError", created |-> 0,
              stars |-> <<>>, homeStars |-> <<>>, linkedStars |-> <<>>]
        ELSE [error |-> "", created |-> Len(made.stars),
              stars |-> made.stars, homeStars |-> made.homeStars,
              linkedStars |-> made.linkedStars]

\* generateStars: the result record, or the error raised; created counts the
\* Star Factory calls made before it returned or threw.
GenerateStarsResult(game, names, locs) ==
    LET gen == GenerateLocations(game, locs)
        isCustomGalaxy == game.galaxyType = "custom"
        unlinkedStars == SelectSeq(gen.locations, LAMBDA l : ~l.linked)
        made == CreateStars(isCustomGalaxy, names, unlinkedStars, 1,
                    [stars |-> <<>>, homeStars |-> <<>>, linkedStars |-> <<>>,
                     starNamesIndex |-> 0])
    IN  IF gen.error # ""
        THEN [error |-> gen.error, created |-> 0,
              stars |-> <<>>, homeStars |-> <<>>, linkedStars |-> <<>>]
        ELSE [error |-> "", created |-> Len(made.stars),
              stars |-> made.stars, homeStars |-> made.homeStars,
              linkedStars |-> made.linkedStars]

(* -------------------------- random generators -------------------------- *)

\* One step of a generator: a full-period congruential generator modulo RandMod.
RandNext(r) == (5 * r + 3) % RandMod

\* shuffle(rand, array): Fisher-Yates, one draw of rand per position, from the
\* last position down; yields the permuted array and the generator's new state.
RECURSIVE ShuffleFrom(_, _, _)
ShuffleFrom(r, arr, i) ==
    IF i <= 1 THEN [array |-> arr, rand |-> r]
    ELSE
        LET r2 == RandNext(r)
            j == ((r2 * i) \div RandMod) + 1
            swapped == [arr EXCEPT ![i] = arr[j], ![j] = arr[i]]
        IN  ShuffleFrom(r2, swapped, i - 1)

Shuffle(r, arr) == ShuffleFrom(r, arr, Len(arr))

\* randomService.getRandomNumberBetween(min, max): a whole number in min..max drawn
\* from the service's own generator, never from the rand argument.
GetRandomNumberBetween(rs, min, max) ==
    LET rs2 == RandNext(rs)
    IN  [value |-> min + ((rs2 * (max - min + 1)) \div RandMod), randomService |-> rs2]

(* ---------------------------- generateTerrain -------------------------- *)

\* FeatureCount rounding up instead of down.
FeatureCountCeil(starList, playerCount, percentage) ==
    (((Len(starList) - playerCount) * percentage) + 99) \div 100

\* FeatureCount over all the stars, the players' home stars not taken off.
FeatureCountAllStars(starList, playerCount, percentage) ==
    (Len(starList) * percentage) \div 100

\* Math.floor((stars.length - playerCount) / 100 * percentage)
FeatureCount(starList, playerCount, percentage) ==
    ((Len(starList) - playerCount) * percentage) \div 100

\* WormHoleCount without the halving for pairs.
WormHoleCountPerStar(starList, playerCount, percentage) ==
    ((Len(starList) - playerCount) * percentage) \div 100

\* Math.floor((stars.length - playerCount) / 2 / 100 * percentage)
WormHoleCount(starList, playerCount, percentage) ==
    ((Len(starList) - playerCount) * percentage) \div 200

\* Whether a star carries the flag a pass sets.
HasFlag(s, pass) ==
    CASE pass = "gates" -> s.warpGate
      [] pass = "wormholes" -> s.wormHoleToStarId # NoStar
      [] pass = "nebulas" -> s.isNebula
      [] pass = "asteroids" -> s.isAsteroidField
      [] pass = "binary" -> s.isBinaryStar
      [] pass = "blackholes" -> s.isBlackHole
      [] pass = "pulsars" -> s.isPulsar

\* ApplicableStars without the home-star exclusion.
ApplicableStarsWithHome(starList, pass) ==
    SelectSeq([i \in 1..Len(starList) |-> i],
              LAMBDA i : /\ ~HasFlag(starList[i], pass)
                         /\ ~IsDeadStar(starList[i]))

\* ApplicableStars without the dead-star exclusion.
ApplicableStarsWithDead(starList, pass) ==
    SelectSeq([i \in 1..Len(starList) |-> i],
              LAMBDA i : /\ ~starList[i].homeStar
                         /\ ~HasFlag(starList[i], pass))

\* ApplicableStars excluding every star that carries any terrain flag.
ApplicableStarsExclusive(starList, pass) ==
    SelectSeq([i \in 1..Len(starList) |-> i],
              LAMBDA i : /\ ~starList[i].homeStar
                         /\ \A other \in PassNames : ~HasFlag(starList[i], other)
                         /\ ~IsDeadStar(starList[i]))

\* stars.filter(s => !s.homeStar && !s.<flag> && !isDeadStar(s)), as positions in stars.
ApplicableStars(starList, pass) ==
    SelectSeq([i \in 1..Len(starList) |-> i],
              LAMBDA i : /\ ~starList[i].homeStar
                         /\ ~HasFlag(starList[i], pass)
                         /\ ~IsDeadStar(starList[i]))

\* MinResources without the factor 1.5.
MinResourcesUnscaled == MaxNaturalResources

\* maxNaturalResources * 1.5 and maxNaturalResources * 3
MinResources == (MaxNaturalResources * 3) \div 2

MaxResources == MaxNaturalResources * 3

\* BlackHoleReduce rounding down.
BlackHoleReduceFloor(value) == value \div 5

\* Math.ceil(value * 0.2)
BlackHoleReduce(value) == (value + 4) \div 5

\* The state a pass works on and hands on.
World(starList, r, rs, err) ==
    [stars |-> starList, rand |-> r, randomService |-> rs, error |-> err]

\* Winners shuffling with the random service's generator instead of rand.
WinnersFromService(w, pass, count) ==
    LET shuffled == Shuffle(w.randomService, ApplicableStars(w.stars, pass))
    IN  [list |-> Slice(shuffled.array, count), rand |-> RandNext(w.rand)]

\* The winners of a single-star pass: the first count entries of the shuffled
\* applicable stars, with the generator's state after the shuffle.
Winners(w, pass, count) ==
    LET shuffled == Shuffle(w.rand, ApplicableStars(w.stars, pass))
    IN  [list |-> Slice(shuffled.array, count), rand |-> shuffled.rand]

\* _generateGates
GenerateGates(w, playerCount, percentage) ==
    LET win == Winners(w, "gates", FeatureCount(w.stars, playerCount, percentage))
    IN  World([i \in 1..Len(w.stars) |->
                  IF i \in Range(win.list)
                  THEN [w.stars[i] EXCEPT !.warpGate = TRUE]
                  ELSE w.stars[i]],
              win.rand, w.randomService, "")

\* PairWormHoles writing starA's side of each pair only.
RECURSIVE PairWormHolesOneSided(_, _, _, _)
PairWormHolesOneSided(starList, wormHoleStars, wormHoleCount, i) ==
    IF i >= wormHoleCount THEN [stars |-> starList, error |-> ""]
    ELSE IF 2 * i + 2 > Len(wormHoleStars) THEN [stars |-> starList, error |-> "TypeError"]
    ELSE
        LET a == wormHoleStars[2 * i + 1]
            b == wormHoleStars[2 * i + 2]
        IN  PairWormHolesOneSided([starList EXCEPT ![a].wormHoleToStarId = starList[b]._id],
                                  wormHoleStars, wormHoleCount, i + 1)

\* PairWormHoles pairing entry i with entry i + wormHoleCount instead of neighbours.
RECURSIVE PairWormHolesStrided(_, _, _, _)
PairWormHolesStrided(starList, wormHoleStars, wormHoleCount, i) ==
    IF i >= wormHoleCount THEN [stars |-> starList, error |-> ""]
    ELSE IF wormHoleCount + i + 1 > Len(wormHoleStars)
    THEN [stars |-> starList, error |-> "TypeError"]
    ELSE
        LET a == wormHoleStars[i + 1]
            b == wormHoleStars[wormHoleCount + i + 1]
        IN  PairWormHolesStrided([starList EXCEPT ![a].wormHoleToStarId = starList[b]._id,
                                                  ![b].wormHoleToStarId = starList[a]._id],
                                 wormHoleStars, wormHoleCount, i + 1)

\* The loop of _generateWormHoles from pair i (zero-based) on: a missing starA or
\* starB raises a TypeError and leaves the pairs already written.
RECURSIVE PairWormHoles(_, _, _, _)
PairWormHoles(starList, wormHoleStars, wormHoleCount, i) ==
    IF i >= wormHoleCount THEN [stars |-> starList, error |-> ""]
    ELSE IF 2 * i + 2 > Len(wormHoleStars) THEN [stars |-> starList, error |-> "TypeError"]
    ELSE
        LET a == wormHoleStars[2 * i + 1]
            b == wormHoleStars[2 * i + 2]
        IN  PairWormHoles([starList EXCEPT ![a].wormHoleToStarId = starList[b]._id,
                                           ![b].wormHoleToStarId = starList[a]._id],
                          wormHoleStars, wormHoleCount, i + 1)

\* _generateWormHoles
GenerateWormHoles(w, playerCount, percentage) ==
    LET wormHoleCount == WormHoleCount(w.stars, playerCount, percentage)
        win == Winners(w, "wormholes", wormHoleCount * 2)
        paired == PairWormHoles(w.stars, win.list, wormHoleCount, 0)
    IN  World(paired.stars, win.rand, w.randomService, paired.error)

\* MarkNebulas overwriting science whatever the game mode.
RECURSIVE MarkNebulasAnyMode(_, _, _, _, _)
MarkNebulasAnyMode(starList, rs, winners, k, split) ==
    IF k > Len(winners) THEN [stars |-> starList, randomService |-> rs]
    ELSE
        LET i == winners[k]
            draw == GetRandomNumberBetween(rs, MinResources, MaxResources)
        IN  MarkNebulasAnyMode([starList EXCEPT ![i].isNebula = TRUE,
                                                ![i].naturalResources.science = draw.value],
                               draw.randomService, winners, k + 1, split)

\* The loop of _generateNebulas from its k-th winner on.
RECURSIVE MarkNebulas(_, _, _, _, _)
MarkNebulas(starList, rs, winners, k, split) ==
    IF k > Len(winners) THEN [stars |-> starList, randomService |-> rs]
    ELSE
        LET i == winners[k]
            draw == GetRandomNumberBetween(rs, MinResources, MaxResources)
        IN  IF split
            THEN MarkNebulas([starList EXCEPT ![i].isNebula = TRUE,
                                              ![i].naturalResources.science = draw.value],
                             draw.randomService, winners, k + 1, split)
            ELSE MarkNebulas([starList EXCEPT ![i].isNebula = TRUE],
                             rs, winners, k + 1, split)

\* _generateNebulas
GenerateNebulas(w, game, playerCount, percentage) ==
    LET win == Winners(w, "nebulas", FeatureCount(w.stars, playerCount, percentage))
        marked == MarkNebulas(w.stars, w.randomService, win.list, 1, IsSplitResources(game))
    IN  World(marked.stars, win.rand, marked.randomService, "")

\* MarkAsteroidFields overwriting science, as the nebula pass does.
RECURSIVE MarkAsteroidFieldsScience(_, _, _, _, _)
MarkAsteroidFieldsScience(starList, rs, winners, k, split) ==
    IF k > Len(winners) THEN [stars |-> starList, randomService |-> rs]
    ELSE
        LET i == winners[k]
            draw == GetRandomNumberBetween(rs, MinResources, MaxResources)
        IN  IF split
            THEN MarkAsteroidFieldsScience(
                     [starList EXCEPT ![i].isAsteroidField = TRUE,
                                      ![i].naturalResources.science = draw.value],
                     draw.randomService, winners, k + 1, split)
            ELSE MarkAsteroidFieldsScience([starList EXCEPT ![i].isAsteroidField = TRUE],
                                           rs, winners, k + 1, split)

\* The loop of _generateAsteroidFields from its k-th winner on.
RECURSIVE MarkAsteroidFields(_, _, _, _, _)
MarkAsteroidFields(starList, rs, winners, k, split) ==
    IF k > Len(winners) THEN [stars |-> starList, randomService |-> rs]
    ELSE
        LET i == winners[k]
            draw == GetRandomNumberBetween(rs, MinResources, MaxResources)
        IN  IF split
            THEN MarkAsteroidFields(
                     [starList EXCEPT ![i].isAsteroidField = TRUE,
                                      ![i].naturalResources.economy = draw.value],
                     draw.randomService, winners, k + 1, split)
            ELSE MarkAsteroidFields([starList EXCEPT ![i].isAsteroidField = TRUE],
                                    rs, winners, k + 1, split)

\* _generateAsteroidFields
GenerateAsteroidFields(w, game, playerCount, percentage) ==
    LET win == Winners(w, "asteroids", FeatureCount(w.stars, playerCount, percentage))
        marked == MarkAsteroidFields(w.stars, w.randomService, win.list, 1,
                                     IsSplitResources(game))
    IN  World(marked.stars, win.rand, marked.randomService, "")

\* MarkBinaryStars drawing a value of its own for each channel in non-split mode.
RECURSIVE MarkBinaryStarsPerChannel(_, _, _, _, _)
MarkBinaryStarsPerChannel(starList, rs, winners, k, split) ==
    IF k > Len(winners) THEN [stars |-> starList, randomService |-> rs]
    ELSE
        LET i == winners[k]
            draw == GetRandomNumberBetween(rs, MinResources, MaxResources)
            draw2 == GetRandomNumberBetween(draw.randomService, MinResources, MaxResources)
            draw3 == GetRandomNumberBetween(draw2.randomService, MinResources, MaxResources)
        IN  IF split
            THEN MarkBinaryStarsPerChannel(
                     [starList EXCEPT ![i].isBinaryStar = TRUE,
                                      ![i].naturalResources.industry = draw.value],
                     draw.randomService, winners, k + 1, split)
            ELSE MarkBinaryStarsPerChannel(
                     [starList EXCEPT ![i].isBinaryStar = TRUE,
                                      ![i].naturalResources =
                                          Resources(draw.value, draw2.value, draw3.value)],
                     draw3.randomService, winners, k + 1, split)

\* The loop of _generateBinaryStars from its k-th winner on.
RECURSIVE MarkBinaryStars(_, _, _, _, _)
MarkBinaryStars(starList, rs, winners, k, split) ==
    IF k > Len(winners) THEN [stars |-> starList, randomService |-> rs]
    ELSE
        LET i == winners[k]
            draw == GetRandomNumberBetween(rs, MinResources, MaxResources)
        IN  IF split
            THEN MarkBinaryStars(
                     [starList EXCEPT ![i].isBinaryStar = TRUE,
                                      ![i].naturalResources.industry = draw.value],
                     draw.randomService, winners, k + 1, split)
            ELSE MarkBinaryStars(
                     [starList EXCEPT ![i].isBinaryStar = TRUE,
                                      ![i].naturalResources =
                                          Resources(draw.value, draw.value, draw.value)],
                     draw.randomService, winners, k + 1, split)

\* _generateBinaryStars
GenerateBinaryStars(w, game, playerCount, percentage) ==
    LET win == Winners(w, "binary", FeatureCount(w.stars, playerCount, percentage))
        marked == MarkBinaryStars(w.stars, w.randomService, win.list, 1,
                                  IsSplitResources(game))
    IN  World(marked.stars, win.rand, marked.randomService, "")

\* _generateBlackHoles
GenerateBlackHoles(w, playerCount, percentage) ==
    LET win == Winners(w, "blackholes", FeatureCount(w.stars, playerCount, percentage))
    IN  World([i \in 1..Len(w.stars) |->
                  IF i \in Range(win.list)
                  THEN [w.stars[i] EXCEPT
                           !.isBlackHole = TRUE,
                           !.naturalResources =
                               Resources(BlackHoleReduce(@.economy),
                                         BlackHoleReduce(@.industry),
                                         BlackHoleReduce(@.science))]
                  ELSE w.stars[i]],
              win.rand, w.randomService, "")

\* GeneratePulsars closing the warp gate of each star it marks.
GeneratePulsarsClosingGates(w, playerCount, percentage) ==
    LET win == Winners(w, "pulsars", FeatureCount(w.stars, playerCount, percentage))
    IN  World([i \in 1..Len(w.stars) |->
                  IF i \in Range(win.list)
                  THEN [w.stars[i] EXCEPT !.isPulsar = TRUE, !.warpGate = FALSE]
                  ELSE w.stars[i]],
              win.rand, w.randomService, "")

\* _generatePulsars
GeneratePulsars(w, playerCount, percentage) ==
    LET win == Winners(w, "pulsars", FeatureCount(w.stars, playerCount, percentage))
    IN  World([i \in 1..Len(w.stars) |->
                  IF i \in Range(win.list)
                  THEN [w.stars[i] EXCEPT !.isPulsar = TRUE]
                  ELSE w.stars[i]],
              win.rand, w.randomService, "")

\* The pass of generateTerrain at one position, run on w with the game's settings.
RunPass(pass, w, game) ==
    LET playerCount == game.playerLimit
        percentage == game.percentage[pass]
    IN  CASE pass = "gates" -> GenerateGates(w, playerCount, percentage)
          [] pass = "wormholes" -> GenerateWormHoles(w, playerCount, percentage)
          [] pass = "nebulas" -> GenerateNebulas(w, game, playerCount, percentage)
          [] pass = "asteroids" -> GenerateAsteroidFields(w, game, playerCount, percentage)
          [] pass = "binary" -> GenerateBinaryStars(w, game, playerCount, percentage)
          [] pass = "blackholes" -> GenerateBlackHoles(w, playerCount, percentage)
          [] pass = "pulsars" -> GeneratePulsars(w, playerCount, percentage)

(* --------------------------- geometry queries -------------------------- *)

\* A quotient of two whole numbers, kept exact.
Ratio(n, d) == [num |-> n, den |-> d]

\* The {x: 0, y: 0} both queries return for an empty array.
Origin == [x |-> Ratio(0, 1), y |-> Ratio(0, 1)]

\* Compare with the descending order ignored.
CompareAscending(a, b, axis, descending) == a[axis] - b[axis]

\* The comparators (a, b) => b.x - a.x (descending) and (a, b) => a.x - b.x (ascending).
Compare(a, b, axis, descending) ==
    IF descending THEN b[axis] - a[axis] ELSE a[axis] - b[axis]

\* Array.prototype.sort(compareFn) is stable: an element goes behind every element
\* that does not compare greater than it.
InsertSorted(sorted, e, axis, descending) ==
    LET k == Cardinality({i \in 1..Len(sorted) : Compare(sorted[i], e, axis, descending) <= 0})
    IN  SubSeq(sorted, 1, k) \o <<e>> \o SubSeq(sorted, k + 1, Len(sorted))

RECURSIVE SortFrom(_, _, _, _, _)
SortFrom(arr, i, sorted, axis, descending) ==
    IF i > Len(arr) THEN sorted
    ELSE SortFrom(arr, i + 1, InsertSorted(sorted, arr[i], axis, descending), axis, descending)

\* starLocations.sort(compareFn): the array itself is sorted and returned.
Sort(arr, axis, descending) == SortFrom(arr, 1, <<>>, axis, descending)

\* getGalaxyCenter: the value returned and the array as the call leaves it.
GetGalaxyCenter(starLocs) ==
    IF Len(starLocs) = 0 THEN [center |-> Origin, starLocations |-> starLocs]
    ELSE
        LET byMaxX == Sort(starLocs, "x", TRUE)
            maxX == byMaxX[1].x
            byMaxY == Sort(byMaxX, "y", TRUE)
            maxY == byMaxY[1].y
            byMinX == Sort(byMaxY, "x", FALSE)
            minX == byMinX[1].x
            byMinY == Sort(byMinX, "y", FALSE)
            minY == byMinY[1].y
        IN  [center |-> [x |-> Ratio(minX + maxX, 2), y |-> Ratio(minY + maxY, 2)],
             starLocations |-> byMinY]

\* starLocations.reduce((total, s) => total += s.x, 0) from the i-th element on.
RECURSIVE Reduce(_, _, _, _)
Reduce(arr, axis, i, total) ==
    IF i > Len(arr) THEN total ELSE Reduce(arr, axis, i + 1, total + arr[i][axis])

\* GetGalaxyCenterOfMass dividing by the number of distinct locations.
GetGalaxyCenterOfMassDistinct(starLocs) ==
    IF Len(starLocs) = 0 THEN [center |-> Origin, starLocations |-> starLocs]
    ELSE [center |-> [x |-> Ratio(Reduce(starLocs, "x", 1, 0), Cardinality(Range(starLocs))),
                      y |-> Ratio(Reduce(starLocs, "y", 1, 0), Cardinality(Range(starLocs)))],
          starLocations |-> starLocs]

\* getGalaxyCenterOfMass: the value returned and the array as the call leaves it.
GetGalaxyCenterOfMass(starLocs) ==
    IF Len(starLocs) = 0 THEN [center |-> Origin, starLocations |-> starLocs]
    ELSE [center |-> [x |-> Ratio(Reduce(starLocs, "x", 1, 0), Len(starLocs)),
                      y |-> Ratio(Reduce(starLocs, "y", 1, 0), Len(starLocs))],
          starLocations |-> starLocs]

\* No geometry query has been made.
GeometryIdle ==
    /\ locations = <<>>
    /\ passed = <<>>
    /\ center = Origin
    /\ query = "none"

(* ------------------------------ GameService ---------------------------- *)

\* An empty player slot as the game is created with.
EmptyPlayer(id) == [_id |-> id, userId |-> Null, alias |-> "Empty Slot", defeated |-> FALSE]

\* A new game with one empty slot per player allowed.
NewGame(playerLimit) ==
    [players |-> [i \in 1..playerLimit |-> EmptyPlayer(i)],
     state |-> [startDate |-> Null, endDate |-> Null, paused |-> TRUE, winner |-> Null,
                lastTickDate |-> Null, nextTickDate |-> Null],
     playerLimit |-> playerLimit,
     speed |-> GameSpeed]

\* players.find(x => x.userId == userId): position of the first match, 0 if none.
FindByUserId(players, userId) ==
    IF \E i \in 1..Len(players) : players[i].userId = userId
    THEN CHOOSE i \in 1..Len(players) :
            /\ players[i].userId = userId
            /\ \A j \in 1..(i - 1) : players[j].userId # userId
    ELSE 0

\* players.find(x => x._id.toString() === playerId): position of the first match,
\* 0 if none.
FindById(players, playerId) ==
    IF \E i \in 1..Len(players) : players[i]._id = playerId
    THEN CHOOSE i \in 1..Len(players) :
            /\ players[i]._id = playerId
            /\ \A j \in 1..(i - 1) : players[j]._id # playerId
    ELSE 0

Throw(g) == [game |-> g, thrown |-> "ValidationError"]

Saved(g) == [game |-> g, thrown |-> ""]

\* Join putting the user into the slot whether or not it is occupied.
JoinTakenSlot(g, userId, playerId, alias, now) ==
    LET existing == FindByUserId(g.players, userId)
        player == FindById(g.players, playerId)
    IN  IF g.state.startDate # Null THEN Throw(g)
        ELSE IF g.state.endDate # Null THEN Throw(g)
        ELSE IF existing # 0 THEN Throw(g)
        ELSE IF player = 0 THEN Throw(g)
        ELSE
            LET joined == [g EXCEPT !.players[player].userId = userId,
                                    !.players[player].alias = alias]
                playerCount == Cardinality({i \in 1..Len(joined.players) :
                                               joined.players[i].userId # Null})
            IN  IF playerCount = g.playerLimit
                THEN Saved([joined EXCEPT !.state.paused = FALSE,
                                          !.state.startDate = now,
                                          !.state.lastTickDate = now,
                                          !.state.nextTickDate = now + g.speed])
                ELSE Saved(joined)

\* join(game, userId, playerId, alias), called at time now.
Join(g, userId, playerId, alias, now) ==
    LET existing == FindByUserId(g.players, userId)
        player == FindById(g.players, playerId)
    IN  IF g.state.startDate # Null THEN Throw(g)
        ELSE IF g.state.endDate # Null THEN Throw(g)
        ELSE IF existing # 0 THEN Throw(g)
        ELSE IF player = 0 THEN Throw(g)
        ELSE IF g.players[player].userId # Null THEN Throw(g)
        ELSE
            LET joined == [g EXCEPT !.players[player].userId = userId,
                                    !.players[player].alias = alias]
                playerCount == Cardinality({i \in 1..Len(joined.players) :
                                               joined.players[i].userId # Null})
            IN  IF playerCount = g.playerLimit
                THEN Saved([joined EXCEPT !.state.paused = FALSE,
                                          !.state.startDate = now,
                                          !.state.lastTickDate = now,
                                          !.state.nextTickDate = now + g.speed])
                ELSE Saved(joined)

\* quit(game, userId)
Quit(g, userId) ==
    LET player == FindByUserId(g.players, userId)
    IN  IF player = 0 THEN Throw(g)
        ELSE IF g.state.startDate # Null THEN Throw(g)
        ELSE IF g.state.endDate # Null THEN Throw(g)
        ELSE Saved([g EXCEPT !.players[player].userId = Null,
                             !.players[player].alias = "Empty Slot"])

\* ConcedeDefeat recording the conceding player as the winner.
ConcedeDefeatWinnerSelf(g, userId, now) ==
    LET player == FindByUserId(g.players, userId)
    IN  IF player = 0 THEN Throw(g)
        ELSE IF g.players[player].defeated THEN Throw(g)
        ELSE IF g.state.startDate = Null THEN Throw(g)
        ELSE IF g.state.endDate # Null THEN Throw(g)
        ELSE
            LET conceded == [g EXCEPT !.players[player].defeated = TRUE]
                undefeatedPlayers == SelectSeq(conceded.players, LAMBDA x : ~x.defeated)
            IN  IF Len(undefeatedPlayers) = 1
                THEN Saved([conceded EXCEPT !.state.paused = TRUE,
                                            !.state.endDate = now,
                                            !.state.winner = g.players[player]._id])
                ELSE Saved(conceded)

\* concedeDefeat(game, userId), called at time now.
ConcedeDefeat(g, userId, now) ==
    LET player == FindByUserId(g.players, userId)
    IN  IF player = 0 THEN Throw(g)
        ELSE IF g.players[player].defeated THEN Throw(g)
        ELSE IF g.state.startDate = Null THEN Throw(g)
        ELSE IF g.state.endDate # Null THEN Throw(g)
        ELSE
            LET conceded == [g EXCEPT !.players[player].defeated = TRUE]
                undefeatedPlayers == SelectSeq(conceded.players, LAMBDA x : ~x.defeated)
            IN  IF Len(undefeatedPlayers) = 1
                THEN Saved([conceded EXCEPT !.state.paused = TRUE,
                                            !.state.endDate = now,
                                            !.state.winner = undefeatedPlayers[1]._id])
                ELSE Saved(conceded)

NoCall == [op |-> "none", userId |-> Null, playerId |-> Null]

\* No game is being played.
GameIdle ==
    /\ gameDoc = NewGame(0)
    /\ thrown = ""
    /\ lastCall = NoCall
    /\ clock = 1

(* ------------------------------ the workflow --------------------------- *)

PlayerLimits == {1, 2}

\* game.settings.specialGalaxy.random*: one percentage per pass.  The settings
\* explored enable any subset of the passes, all at the same percentage.
FeatureSettings ==
    {[p \in PassNames |-> IF p \in enabled THEN percentage ELSE 0] :
        enabled \in SUBSET PassNames, percentage \in Percentages}

Init ==
    /\ settings \in [galaxyType : GalaxyTypeInputs,
                     playerLimit : PlayerLimits,
                     percentage : FeatureSettings,
                     splitResources : BOOLEAN]
    /\ starLocations \in Layouts(settings.galaxyType, settings.playerLimit)
    /\ starNames = NamePool(Len(starLocations))
    /\ seed \in 0..MaxSeed
    /\ rand = seed
    /\ randomService = 0
    /\ stars = <<>>
    /\ homeStars = <<>>
    /\ linkedStars = <<>>
    /\ created = 0
    /\ pc = "new"
    /\ error = ""
    /\ entry = <<>>
    /\ terrainCalls = 0
    /\ prev = <<>>
    /\ GeometryIdle
    /\ GameIdle

\* All passes disabled, or all enabled at the full percentage.
AssemblySettings ==
    {[p \in PassNames |-> percentage] : percentage \in {0, 100}}

\* Star assembly explored: any strategy output, and a name pool of any length up to
\* the number of locations.
InitAssembly ==
    /\ settings \in [galaxyType : GalaxyTypeInputs,
                     playerLimit : PlayerLimits,
                     percentage : AssemblySettings,
                     splitResources : {FALSE}]
    /\ starLocations \in AssemblyLayouts(settings.galaxyType, settings.playerLimit)
    /\ starNames \in {NamePool(n) : n \in 0..Len(starLocations)}
    /\ seed \in 0..MaxSeed
    /\ rand = seed
    /\ randomService = 0
    /\ stars = <<>>
    /\ homeStars = <<>>
    /\ linkedStars = <<>>
    /\ created = 0
    /\ pc = "new"
    /\ error = ""
    /\ entry = <<>>
    /\ terrainCalls = 0
    /\ prev = <<>>
    /\ GeometryIdle
    /\ GameIdle

\* generateStars, and on success the start of the first generateTerrain call.
GenerateStars ==
    /\ pc = "new"
    /\ LET result == GenerateStarsResult(settings, starNames, starLocations)
       IN  /\ stars' = result.stars
           /\ homeStars' = result.homeStars
           /\ linkedStars' = result.linkedStars
           /\ created' = result.created
           /\ error' = result.error
           /\ entry' = result.stars
           /\ pc' = IF result.error = "" THEN Passes[1] ELSE "failed"
           /\ terrainCalls' = IF result.error = "" THEN 1 ELSE 0
    /\ UNCHANGED <<geometryVars, gameVars>>
    /\ UNCHANGED <<settings, starLocations, starNames, seed, rand, randomService, prev>>

PassIndex(pass) == CHOOSE i \in 1..Len(Passes) : Passes[i] = pass

AfterPass(pass) == IF PassIndex(pass) = Len(Passes) THEN "done" ELSE Passes[PassIndex(pass) + 1]

\* TerrainPass running the pass whatever its setting.
TerrainPassAlwaysRuns(pass) ==
    /\ pc = pass
    /\ LET w == RunPass(pass, World(stars, rand, randomService, ""), settings)
       IN  /\ stars' = w.stars
           /\ rand' = w.rand
           /\ randomService' = w.randomService
           /\ error' = w.error
           /\ pc' = IF w.error = "" THEN AfterPass(pass) ELSE "failed"
    /\ UNCHANGED <<geometryVars, gameVars>>
    /\ UNCHANGED <<settings, starLocations, starNames, seed, homeStars, linkedStars,
                   created, entry, terrainCalls, prev>>

\* One pass of generateTerrain: skipped when its setting is falsy, otherwise run;
\* an error raised by the pass ends the call.
TerrainPass(pass) ==
    /\ pc = pass
    /\ LET w == IF settings.percentage[pass] = 0
                THEN World(stars, rand, randomService, "")
                ELSE RunPass(pass, World(stars, rand, randomService, ""), settings)
       IN  /\ stars' = w.stars
           /\ rand' = w.rand
           /\ randomService' = w.randomService
           /\ error' = w.error
           /\ pc' = IF w.error = "" THEN AfterPass(pass) ELSE "failed"
    /\ UNCHANGED <<geometryVars, gameVars>>
    /\ UNCHANGED <<settings, starLocations, starNames, seed, homeStars, linkedStars,
                   created, entry, terrainCalls, prev>>

GatesPass == TerrainPass("gates")

WormHolesPass == TerrainPass("wormholes")

NebulasPass == TerrainPass("nebulas")

AsteroidFieldsPass == TerrainPass("asteroids")

BinaryStarsPass == TerrainPass("binary")

BlackHolesPass == TerrainPass("blackholes")

PulsarsPass == TerrainPass("pulsars")

\* generateTerrain is called again on the same stars, with the same rand.
Regenerate ==
    /\ pc = "done"
    /\ prev = <<>>
    /\ terrainCalls < MaxTerrainCalls
    /\ pc' = Passes[1]
    /\ entry' = stars
    /\ terrainCalls' = terrainCalls + 1
    /\ UNCHANGED <<geometryVars, gameVars>>
    /\ UNCHANGED <<settings, starLocations, starNames, seed, rand, randomService, stars,
                   homeStars, linkedStars, created, error, prev>>

\* The generation is replayed: same settings, same strategy output and names, a
\* RandomGen of the same seed.  The random service is not part of what is replayed.
Replay ==
    /\ pc = "done"
    /\ prev = <<>>
    /\ terrainCalls = 1
    /\ prev' = stars
    /\ rand' = seed
    /\ stars' = <<>>
    /\ homeStars' = <<>>
    /\ linkedStars' = <<>>
    /\ created' = 0
    /\ entry' = <<>>
    /\ terrainCalls' = 0
    /\ pc' = "new"
    /\ UNCHANGED <<geometryVars, gameVars>>
    /\ UNCHANGED <<settings, starLocations, starNames, seed, randomService, error>>

Next ==
    \/ GenerateStars
    \/ GatesPass
    \/ WormHolesPass
    \/ NebulasPass
    \/ AsteroidFieldsPass
    \/ BinaryStarsPass
    \/ BlackHolesPass
    \/ PulsarsPass
    \/ Regenerate
    \/ Replay

Spec == Init /\ [][Next]_vars

SpecAssembly == InitAssembly /\ [][Next]_vars

(* ------------------------- the geometry callers ------------------------ *)

\* The map workflow has not been started.
MapIdle ==
    /\ settings = [galaxyType |-> "custom", playerLimit |-> 1,
                   percentage |-> [p \in PassNames |-> 0], splitResources |-> FALSE]
    /\ starLocations = <<>>
    /\ starNames = <<>>
    /\ seed = 0
    /\ rand = 0
    /\ randomService = 0
    /\ stars = <<>>
    /\ homeStars = <<>>
    /\ linkedStars = <<>>
    /\ created = 0
    /\ pc = "new"
    /\ error = ""
    /\ entry = <<>>
    /\ terrainCalls = 0
    /\ prev = <<>>

\* The locations a caller may hold: any array of grid points, repeats allowed.
Points == [x : 0..MaxCoordinate, y : 0..MaxCoordinate]

InitGeometry ==
    /\ MapIdle
    /\ GameIdle
    /\ locations \in UNION {[1..n -> Points] : n \in 0..MaxLocations}
    /\ passed = <<>>
    /\ center = Origin
    /\ query = "none"

\* A caller asks for the bounding-box center of its array.
CallGetGalaxyCenter ==
    /\ LET result == GetGalaxyCenter(locations)
       IN  /\ center' = result.center
           /\ locations' = result.starLocations
    /\ passed' = locations
    /\ query' = "getGalaxyCenter"
    /\ UNCHANGED <<mapVars, gameVars>>

\* A caller asks for the center of mass of its array.
CallGetGalaxyCenterOfMass ==
    /\ LET result == GetGalaxyCenterOfMass(locations)
       IN  /\ center' = result.center
           /\ locations' = result.starLocations
    /\ passed' = locations
    /\ query' = "getGalaxyCenterOfMass"
    /\ UNCHANGED <<mapVars, gameVars>>

NextGeometry ==
    \/ CallGetGalaxyCenter
    \/ CallGetGalaxyCenterOfMass

SpecGeometry == InitGeometry /\ [][NextGeometry]_vars

(* ------------------------- the GameService callers --------------------- *)

Users == 1..MaxPlayers

PlayerIds == 1..MaxPlayers

InitGame ==
    /\ MapIdle
    /\ GeometryIdle
    /\ gameDoc \in {NewGame(n) : n \in 2..MaxPlayers}
    /\ thrown = ""
    /\ lastCall = NoCall
    /\ clock = 1

CallJoin ==
    /\ clock <= MaxCalls
    /\ \E userId \in Users, playerId \in PlayerIds :
          LET result == Join(gameDoc, userId, playerId, "Commander", clock)
          IN  /\ gameDoc' = result.game
              /\ thrown' = result.thrown
              /\ lastCall' = [op |-> "join", userId |-> userId, playerId |-> playerId]
    /\ clock' = clock + 1
    /\ UNCHANGED <<mapVars, geometryVars>>

CallQuit ==
    /\ clock <= MaxCalls
    /\ \E userId \in Users :
          LET result == Quit(gameDoc, userId)
          IN  /\ gameDoc' = result.game
              /\ thrown' = result.thrown
              /\ lastCall' = [op |-> "quit", userId |-> userId, playerId |-> Null]
    /\ clock' = clock + 1
    /\ UNCHANGED <<mapVars, geometryVars>>

CallConcedeDefeat ==
    /\ clock <= MaxCalls
    /\ \E userId \in Users :
          LET result == ConcedeDefeat(gameDoc, userId, clock)
          IN  /\ gameDoc' = result.game
              /\ thrown' = result.thrown
              /\ lastCall' = [op |-> "concedeDefeat", userId |-> userId, playerId |-> Null]
    /\ clock' = clock + 1
    /\ UNCHANGED <<mapVars, geometryVars>>

NextGame ==
    \/ CallJoin
    \/ CallQuit
    \/ CallConcedeDefeat

SpecGame == InitGame /\ [][NextGame]_vars

(* ------------------------------- properties ---------------------------- *)

Positions(starList) == 1..Len(starList)

\* The stars of starList carrying the flag of a pass.
Flagged(starList, pass) == {i \in Positions(starList) : HasFlag(starList[i], pass)}

\* Whether a star carries any of the seven terrain flags.
HasTerrainFlag(s) == \E pass \in PassNames : HasFlag(s, pass)

\* The seven terrain attributes of a star.
Features(s) ==
    <<s.warpGate, s.wormHoleToStarId, s.isNebula, s.isAsteroidField, s.isBinaryStar,
      s.isBlackHole, s.isPulsar>>

\* Ids of the home stars and of their linked satellites, as generateStars returned them.
HomeIds == Range(homeStars)

LinkedIds == UNION {Range(linkedStars[i]) : i \in 1..Len(linkedStars)}

\* The eligible set of a pass: not a home star, not dead, not yet carrying its flag.
Eligible(starList, pass) ==
    {i \in Positions(starList) :
        /\ ~starList[i].homeStar
        /\ ~IsDeadStar(starList[i])
        /\ ~HasFlag(starList[i], pass)}

\* floor(N * P / divisor) with N = starCount - playerCount and P the pass's percentage.
Quota(pass, divisor) ==
    ((Len(stars) - settings.playerLimit) * settings.percentage[pass]) \div divisor

SingleStarPasses == PassNames \ {"wormholes"}

\* A step that runs the enabled pass p, to its end or to an error.
RunsPass(p) == pc = p /\ pc' # p /\ settings.percentage[p] # 0

\* The stars a step newly flags for pass p.
NewlyFlagged(p) == Flagged(stars', p) \ Flagged(stars, p)

\* C1 as stated: after generateTerrain on freshly generated stars, neither a home
\* star nor a linked satellite of a home star carries a terrain flag.
C1_NoFlagOnHomeOrLinked ==
    (pc = "done" /\ terrainCalls = 1) =>
        \A i \in Positions(stars) :
            (stars[i]._id \in HomeIds \cup LinkedIds) => ~HasTerrainFlag(stars[i])

\* C1 amended: no home star ever carries a terrain flag (linked satellites are
\* ordinary eligible stars).
C1_NoFlagOnHome ==
    \A i \in Positions(stars) :
        (stars[i].homeStar \/ stars[i]._id \in HomeIds) => ~HasTerrainFlag(stars[i])

C1_Witness ==
    /\ pc = "done"
    /\ HomeIds # {}
    /\ \E i \in Positions(stars) : HasTerrainFlag(stars[i])
    /\ \A pass \in PassNames : settings.percentage[pass] = 100

\* C2: wormhole links are mutual: a star linked to B finds B among the stars,
\* B is linked back to it, and B is another star.
C2_WormHolesMutual ==
    \A i \in Positions(stars) :
        stars[i].wormHoleToStarId # NoStar =>
            \E j \in Positions(stars) :
                /\ j # i
                /\ stars[j]._id = stars[i].wormHoleToStarId
                /\ stars[j]._id # stars[i]._id
                /\ stars[j].wormHoleToStarId = stars[i]._id

C2_Witness ==
    /\ pc = "done"
    /\ terrainCalls = 2
    /\ Cardinality(Flagged(entry, "wormholes")) = 2
    /\ Cardinality(Flagged(stars, "wormholes")) = 4

\* C3 as stated: on freshly generated stars every enabled single-star pass marks
\* exactly floor(N * P / 100) stars.
C3_ExactQuota ==
    [][\A p \in SingleStarPasses :
          (RunsPass(p) /\ terrainCalls = 1) =>
              Cardinality(NewlyFlagged(p)) = Quota(p, 100)]_vars

\* C3 amended: every enabled single-star pass newly marks min(floor(N * P / 100), |E|)
\* stars, E being its eligible set.
C3_QuotaOrAllEligible ==
    [][\A p \in SingleStarPasses :
          RunsPass(p) =>
              Cardinality(NewlyFlagged(p))
                  = Min(Quota(p, 100), Cardinality(Eligible(stars, p)))]_vars

C3_Witness ==
    /\ pc = "wormholes"
    /\ terrainCalls = 1
    /\ Cardinality(Flagged(stars, "gates")) >= 1
    /\ Cardinality(Flagged(stars, "gates")) < Quota("gates", 100)

C5_ConsecutivePairs ==
    [][RunsPass("wormholes") =>
          LET count == ((Len(stars) - settings.playerLimit)
                            * settings.percentage["wormholes"]) \div 200
              shuffled == Shuffle(rand, ApplicableStars(stars, "wormholes")).array
              winners == SubSeq(shuffled, 1, Min(2 * count, Len(shuffled)))
          IN  /\ (pc' = "nebulas") => Len(winners) = 2 * count
              /\ \A i \in 0..(count - 1) :
                    2 * i + 2 <= Len(winners) =>
                        /\ stars'[winners[2 * i + 1]].wormHoleToStarId
                               = stars[winners[2 * i + 2]]._id
                        /\ stars'[winners[2 * i + 2]].wormHoleToStarId
                               = stars[winners[2 * i + 1]]._id
              /\ \A k \in Positions(stars) :
                    k \notin Range(winners) => stars'[k] = stars[k]]_vars

C5_Witness ==
    /\ pc = "nebulas"
    /\ terrainCalls = 1
    /\ Quota("wormholes", 200) = 2
    /\ Cardinality(Flagged(stars, "wormholes")) = 4

\* A replay of the generation has run to its end.
ReplayDone == pc = "done" /\ prev # <<>>

\* C6 as stated: a replay with the same seed, settings and starting stars
\* reproduces every star, natural resources included.
C6_ReplayReproducesStars == ReplayDone => stars = prev

\* C7: a replay with the same seed, settings and starting stars reproduces the
\* feature assignment: the same flags and the same wormhole links on every star.
C7_ReplayReproducesFeatures ==
    ReplayDone =>
        /\ Len(stars) = Len(prev)
        /\ \A i \in Positions(stars) : Features(stars[i]) = Features(prev[i])

C7_Witness ==
    /\ ReplayDone
    /\ stars # prev
    /\ settings.percentage["gates"] = 50
    /\ Flagged(stars, "gates") # {}
    /\ Flagged(stars, "wormholes") # {}

\* C8 as stated: no draw is taken from a source other than the rand argument, so
\* no step of a generation advances the random service's generator.
C8_DrawsOnlyFromRand == [][randomService' = randomService]_vars

\* C9 as stated: generateTerrain never raises after it has modified a star.
C9_NoPartialFailure == (pc = "failed") => stars = entry

\* generateStars has been called with a tag the switch does not know.
UnsupportedTagTried == settings.galaxyType \notin SupportedGalaxyTypes /\ pc # "new"

\* C10 as stated: an unsupported tag fails with a ConfigurationError before any
\* star is created.
C10_ConfigurationError ==
    UnsupportedTagTried => (pc = "failed" /\ error = "ConfigurationError" /\ created = 0)

\* C10 amended: an unsupported tag fails with a ValidationError before any star is
\* created.
C10_ValidationError ==
    UnsupportedTagTried =>
        (pc = "failed" /\ error = "ValidationError" /\ created = 0 /\ stars = <<>>)

C10_Witness == UnsupportedTagTried /\ pc = "failed" /\ error = "ValidationError"

\* generateStars has returned its result for a supported tag.
StarsGenerated == pc \notin {"new", "failed"} \/ (pc = "failed" /\ error = "TypeError")

\* The primary locations of the strategy output: those not marked linked.
Primaries == SelectSeq(starLocations, LAMBDA l : ~l.linked)

\* The home locations among the primaries, in order.
HomePrimaries == SelectSeq(Primaries, LAMBDA l : l.homeStar)

\* The position in stars of the star with an id, 0 if there is none.
StarWithId(id) ==
    IF \E k \in Positions(stars) : stars[k]._id = id
    THEN CHOOSE k \in Positions(stars) : stars[k]._id = id
    ELSE 0

\* Whether the star at position k in stars (0: no star) stands at a location.
StandsAt(k, l) == k # 0 /\ stars[k].location = [x |-> l.x, y |-> l.y]

\* C11 as stated: with a name pool shorter than the number of stars to be
\* materialized generateStars fails with a PreconditionError, and no star is ever
\* returned with a missing name.
C11_PoolExhaustionFails ==
    /\ (pc # "new" /\ settings.galaxyType \in SupportedGalaxyTypes
            /\ Len(starNames) < RequiredNames(starLocations))
           => (pc = "failed" /\ error = "PreconditionError")
    /\ \A k \in Positions(stars) : stars[k].name # Undefined

\* C12: generateStars returns one star per primary location plus one per linked
\* location of each home primary, and every location of the strategy output is
\* the location of exactly one star.
C12_EveryLocationOnce ==
    StarsGenerated =>
        /\ Len(stars) = RequiredNames(starLocations)
        /\ Len(stars) = Len(Primaries)
               + Cardinality({<<h, j>> \in (1..Len(HomePrimaries)) \X (1..MaxLinked + 1) :
                                 j <= Len(HomePrimaries[h].linkedLocations)})
        /\ \A i \in 1..Len(starLocations) :
               Cardinality({k \in Positions(stars) : StandsAt(k, starLocations[i])}) = 1

C12_Witness ==
    /\ StarsGenerated
    /\ Len(stars) = 7
    /\ Len(Primaries) = 4
    /\ \E i \in 1..Len(starLocations) : starLocations[i].linked

\* C13: homeStars and linkedStars have the same length, homeStars[i] is the star
\* of the i-th home location, linkedStars[i] lists the stars of that location's
\* linked locations in order, and every id listed is the id of a star.
C13_HomeLinkedAligned ==
    StarsGenerated =>
        /\ Len(homeStars) = Len(linkedStars)
        /\ Len(homeStars) = Len(HomePrimaries)
        /\ \A i \in 1..Len(homeStars) :
              /\ StandsAt(StarWithId(homeStars[i]), HomePrimaries[i])
              /\ Len(linkedStars[i]) = Len(HomePrimaries[i].linkedLocations)
              /\ \A j \in 1..Len(linkedStars[i]) :
                    StandsAt(StarWithId(linkedStars[i][j]),
                             HomePrimaries[i].linkedLocations[j])
        /\ \A k, m \in Positions(stars) : stars[k]._id = stars[m]._id => k = m

C13_Witness ==
    /\ StarsGenerated
    /\ Len(homeStars) = 2
    /\ Len(linkedStars[1]) = 2
    /\ Len(linkedStars[2]) = 1

\* The name pool holds no name twice and suffices for the stars materialized.
PoolSuffices ==
    /\ Len(starNames) >= RequiredNames(starLocations)
    /\ \A a, b \in 1..Len(starNames) : starNames[a] = starNames[b] => a = b

\* C14: with a sufficient pool of unique names the k-th star created has the k-th
\* name of the pool, so no two stars share a name.
C14_NamesInOrder ==
    (StarsGenerated /\ PoolSuffices) =>
        /\ \A k \in Positions(stars) : stars[k].name = starNames[k]
        /\ \A k, m \in Positions(stars) : stars[k].name = stars[m].name => k = m

C14_Witness ==
    /\ StarsGenerated
    /\ PoolSuffices
    /\ Len(stars) >= 5
    /\ \E i \in 1..Len(linkedStars) : Len(linkedStars[i]) = 2

\* The position that follows a pass in the stated order.
StatedSuccessor(p) ==
    CASE p = "gates" -> "wormholes"
      [] p = "wormholes" -> "nebulas"
      [] p = "nebulas" -> "asteroids"
      [] p = "asteroids" -> "binary"
      [] p = "binary" -> "blackholes"
      [] p = "blackholes" -> "pulsars"
      [] p = "pulsars" -> "done"

\* The passes from a position on, in the stated order.
RECURSIVE StatedFrom(_)
StatedFrom(p) == IF p = "done" THEN {} ELSE {p} \cup StatedFrom(StatedSuccessor(p))

\* What the black-hole pass leaves of an overridden resource value.
ReducedOverrides == {(v + 4) \div 5 : v \in ((3 * MaxNaturalResources) \div 2)..(3 * MaxNaturalResources)}

\* C15: the passes run in the order warp gates, wormholes, nebulas, asteroid
\* fields, binary stars, black holes, pulsars, each ending before the next begins;
\* so on freshly generated stars no pass has flagged a star before its turn, and a
\* black hole that is also a nebula, an asteroid field or a binary star holds the
\* reduced override in the overridden channel.
C15_FixedOrder ==
    /\ [][/\ (pc \in PassNames /\ pc' # pc) => pc' \in {StatedSuccessor(pc), "failed"}
          /\ (pc \notin PassNames /\ pc' \in PassNames) => pc' = "gates"]_vars
    /\ [](/\ (pc \in PassNames /\ terrainCalls = 1) =>
                 \A q \in StatedFrom(pc) : Flagged(stars, q) = {}
          /\ (pc \in {"pulsars", "done"} /\ terrainCalls = 1 /\ settings.splitResources) =>
                 \A i \in Flagged(stars, "blackholes") :
                    /\ stars[i].isNebula =>
                           stars[i].naturalResources.science \in ReducedOverrides
                    /\ stars[i].isAsteroidField =>
                           stars[i].naturalResources.economy \in ReducedOverrides
                    /\ stars[i].isBinaryStar =>
                           stars[i].naturalResources.industry \in ReducedOverrides)

C15_Witness ==
    /\ pc = "done"
    /\ terrainCalls = 1
    /\ settings.splitResources
    /\ \E i \in Positions(stars) :
          /\ stars[i].isNebula /\ stars[i].isAsteroidField
          /\ stars[i].isBinaryStar /\ stars[i].isBlackHole
          /\ stars[i].naturalResources.science \in ReducedOverrides
          /\ stars[i].naturalResources.economy \in ReducedOverrides

\* C16: a pass whose setting is disabled changes no star, draws nothing from either
\* generator and hands over to the next pass.
C16_DisabledPassSkipped ==
    [][\A p \in PassNames :
          (pc = p /\ pc' # p /\ settings.percentage[p] = 0) =>
              /\ stars' = stars
              /\ rand' = rand
              /\ randomService' = randomService
              /\ error' = error
              /\ pc' = StatedSuccessor(p)]_vars

C16_Witness ==
    /\ pc = "nebulas"
    /\ terrainCalls = 1
    /\ settings.percentage["gates"] = 50
    /\ settings.percentage["wormholes"] = 0
    /\ settings.percentage["nebulas"] = 50
    /\ Flagged(stars, "gates") # {}

\* C17: a pass changes no star outside its eligible set: home stars, dead stars
\* and stars already carrying its flag (for wormholes: already paired) are left
\* exactly as they were.
C17_OnlyEligibleMarked ==
    [][\A p \in PassNames :
          RunsPass(p) =>
              /\ NewlyFlagged(p) \subseteq Eligible(stars, p)
              /\ Len(stars') = Len(stars)
              /\ \A i \in Positions(stars) :
                    i \notin Eligible(stars, p) => stars'[i] = stars[i]]_vars

C17_Witness ==
    /\ pc = "nebulas"
    /\ terrainCalls = 2
    /\ \E i \in Positions(stars) : IsDeadStar(stars[i])
    /\ Cardinality(Flagged(entry, "wormholes")) = 2
    /\ Cardinality(Flagged(stars, "wormholes")) = 4

\* The eligible positions of a pass in the order of stars.
EligibleInOrder(p) ==
    SelectSeq([i \in Positions(stars) |-> i], LAMBDA i : i \in Eligible(stars, p))

\* C18: the winners of a pass are drawn from the stars that are not home, not dead
\* and without the pass's own flag, whatever other flags they carry.
C18_FlagsIndependent ==
    [][\A p \in PassNames :
          (RunsPass(p) /\ pc' # "failed") =>
              NewlyFlagged(p)
                  = Range(Slice(Shuffle(rand, EligibleInOrder(p)).array,
                                IF p = "wormholes" THEN 2 * Quota(p, 200)
                                ELSE Quota(p, 100)))]_vars

C18_Witness ==
    /\ pc = "done"
    /\ \A p \in PassNames : settings.percentage[p] = 50
    /\ \E i \in Positions(stars) :
          /\ stars[i].isNebula /\ stars[i].isAsteroidField /\ stars[i].warpGate
          /\ stars[i].wormHoleToStarId # NoStar
    /\ \E i \in Positions(stars) : ~stars[i].homeStar /\ ~stars[i].isNebula

\* The resource channel a pass overwrites in split-resources mode.
SplitChannel(p) ==
    CASE p = "nebulas" -> "science"
      [] p = "asteroids" -> "economy"
      [] p = "binary" -> "industry"

Channels == {"economy", "industry", "science"}

OverrideRange == ((3 * MaxNaturalResources) \div 2)..(3 * MaxNaturalResources)

\* C19: in split-resources mode the nebula pass overwrites science only, the
\* asteroid-field pass economy only, the binary-star pass industry only, and only
\* on the stars they newly flag.
C19_OneChannelPerPass ==
    [][\A p \in {"nebulas", "asteroids", "binary"} :
          (RunsPass(p) /\ settings.splitResources) =>
              \A i \in Positions(stars) :
                 /\ \A ch \in Channels \ {SplitChannel(p)} :
                       stars'[i].naturalResources[ch] = stars[i].naturalResources[ch]
                 /\ IF i \in NewlyFlagged(p)
                    THEN stars'[i].naturalResources[SplitChannel(p)] \in OverrideRange
                    ELSE stars'[i] = stars[i]]_vars

C19_Witness ==
    /\ pc = "blackholes"
    /\ terrainCalls = 1
    /\ settings.splitResources
    /\ \E i \in Positions(stars) :
          /\ stars[i].isNebula /\ ~stars[i].isAsteroidField /\ ~stars[i].isBinaryStar
          /\ stars[i].naturalResources.science \in OverrideRange
          /\ stars[i].naturalResources.economy = LivingResources.economy
    /\ \E i \in Positions(stars) :
          /\ stars[i].isAsteroidField /\ stars[i].isBinaryStar /\ ~stars[i].isNebula
          /\ stars[i].naturalResources.economy \in OverrideRange
          /\ stars[i].naturalResources.industry \in OverrideRange
          /\ stars[i].naturalResources.science = LivingResources.science

\* C20: the binary-star pass gives each star it newly flags one value of the
\* override range in all three channels in non-split mode, and in industry alone
\* in split mode.
C20_BinarySharedValue ==
    [][RunsPass("binary") =>
          \A i \in NewlyFlagged("binary") :
             LET old == stars[i].naturalResources
                 new == stars'[i].naturalResources
             IN  /\ new.industry \in OverrideRange
                 /\ IF settings.splitResources
                    THEN new.economy = old.economy /\ new.science = old.science
                    ELSE new.economy = new.industry /\ new.science = new.industry]_vars

C20_Witness ==
    /\ pc = "blackholes"
    /\ terrainCalls = 1
    /\ ~settings.splitResources
    /\ Cardinality(Flagged(stars, "binary")) >= 2
    /\ \E i, j \in Flagged(stars, "binary") :
          stars[i].naturalResources.industry # stars[j].naturalResources.industry

\* C21: in split-resources mode every resource value the nebula, asteroid-field
\* or binary-star pass writes lies between 1.5 and 3 times maxNaturalResources.
C21_OverridesInRange ==
    [][\A p \in {"nebulas", "asteroids", "binary"} :
          (RunsPass(p) /\ settings.splitResources) =>
              \A i \in Positions(stars) : \A ch \in Channels :
                 ((i \in NewlyFlagged(p) /\ ch = SplitChannel(p))
                      \/ stars'[i].naturalResources[ch] # stars[i].naturalResources[ch])
                 => /\ 2 * stars'[i].naturalResources[ch] >= 3 * MaxNaturalResources
                    /\ stars'[i].naturalResources[ch] <= 3 * MaxNaturalResources]_vars

C21_Witness ==
    /\ pc = "blackholes"
    /\ terrainCalls = 1
    /\ settings.splitResources
    /\ \E i \in Positions(stars) :
          /\ stars[i].isNebula /\ stars[i].isAsteroidField /\ stars[i].isBinaryStar
          /\ \A ch \in Channels : stars[i].naturalResources[ch] \in OverrideRange
          /\ stars[i].naturalResources.science # stars[i].naturalResources.economy

\* Whole-number resource values a star can hold before the black-hole pass.
ResourceValues == 0..(5 * 3 * MaxNaturalResources)

\* C22: the black-hole pass, in either mode, replaces each resource channel of each
\* star it newly flags by the least whole number that is at least a fifth of the
\* old value, which is never more than the old value.
C22_BlackHoleReduction ==
    /\ [](\A x \in ResourceValues :
             /\ 5 * BlackHoleReduce(x) >= x
             /\ 5 * (BlackHoleReduce(x) - 1) < x
             /\ BlackHoleReduce(x) <= x)
    /\ [][RunsPass("blackholes") =>
             \A i \in Positions(stars) :
                IF i \in NewlyFlagged("blackholes")
                THEN \A ch \in Channels :
                        LET old == stars[i].naturalResources[ch]
                            new == stars'[i].naturalResources[ch]
                        IN  5 * new >= old /\ 5 * (new - 1) < old /\ new <= old
                ELSE stars'[i] = stars[i]]_vars

C22_Witness ==
    /\ pc = "pulsars"
    /\ terrainCalls = 1
    /\ ~settings.splitResources
    /\ settings.percentage["binary"] = 0
    /\ \E i \in Positions(stars) :
          /\ stars[i].isBlackHole
          /\ stars[i].naturalResources = Resources(1, 1, 1)
          /\ entry[i].naturalResources = LivingResources

\* C23: the warp-gate and pulsar passes in either mode, and the nebula and
\* asteroid-field passes in non-split mode, leave every star's naturalResources
\* as they were.
C23_NoResourceEffect ==
    [][\A p \in {"gates", "pulsars", "nebulas", "asteroids"} :
          (RunsPass(p) /\ (p \in {"gates", "pulsars"} \/ ~settings.splitResources)) =>
              /\ \A i \in Positions(stars) :
                    stars'[i].naturalResources = stars[i].naturalResources
              /\ randomService' = randomService]_vars

C23_Witness ==
    /\ pc = "done"
    /\ terrainCalls = 1
    /\ ~settings.splitResources
    /\ \A p \in PassNames :
          settings.percentage[p] = IF p \in {"binary", "blackholes"} THEN 0 ELSE 100
    /\ \E i \in Positions(stars) :
          /\ stars[i].warpGate /\ stars[i].isPulsar
          /\ stars[i].isNebula /\ stars[i].isAsteroidField
          /\ stars[i].naturalResources = LivingResources

\* The attributes of a star that generateTerrain is not to touch.
Topology(s) == <<s._id, s.name, s.location, s.ownedByPlayerId, s.homeStar>>

\* C24: no step of generateTerrain changes the number or order of the stars or any
\* star's id, name, location, owner or homeStar flag, and none clears a feature
\* flag that is set.
C24_TopologyKept ==
    [][(pc \in PassNames) =>
          /\ Len(stars') = Len(stars)
          /\ \A i \in Positions(stars) :
                /\ Topology(stars'[i]) = Topology(stars[i])
                /\ DOMAIN stars'[i] = DOMAIN stars[i]
                /\ \A q \in PassNames : HasFlag(stars[i], q) => HasFlag(stars'[i], q)
                /\ stars[i].wormHoleToStarId # NoStar =>
                       stars'[i].wormHoleToStarId = stars[i].wormHoleToStarId
          /\ homeStars' = homeStars
          /\ linkedStars' = linkedStars]_vars

C24_Witness ==
    /\ pc = "done"
    /\ terrainCalls = 2
    /\ \A p \in PassNames : settings.percentage[p] = 50
    /\ \E i \in Positions(stars) : \A q \in PassNames : HasFlag(stars[i], q)
    /\ \A i \in Positions(stars) : Topology(stars[i]) = Topology(entry[i])

C25_InputPreserved == (query # "none") => locations = passed

\* Equality of two exact quotients.
SameRatio(a, b) == a.num * b.den = b.num * a.den

\* The x (or y) coordinates occurring in an array of locations.
Coordinates(arr, axis) == {arr[i][axis] : i \in 1..Len(arr)}

Least(S) == CHOOSE v \in S : \A w \in S : v <= w

Greatest(S) == CHOOSE v \in S : \A w \in S : v >= w

\* C26: getGalaxyCenter returns {0,0} for an empty array and otherwise the midpoint
\* of the bounding box, ((minX+maxX)/2, (minY+maxY)/2), a function of the set of
\* locations alone.
C26_BoundingBoxCenter ==
    (query = "getGalaxyCenter") =>
        IF passed = <<>> THEN center = Origin
        ELSE /\ SameRatio(center.x, Ratio(Least(Coordinates(passed, "x"))
                                              + Greatest(Coordinates(passed, "x")), 2))
             /\ SameRatio(center.y, Ratio(Least(Coordinates(passed, "y"))
                                              + Greatest(Coordinates(passed, "y")), 2))

C26_Witness ==
    /\ query = "getGalaxyCenter"
    /\ passed = <<[x |-> 0, y |-> 0], [x |-> 0, y |-> 0], [x |-> 2, y |-> 2]>>
    /\ SameRatio(center.x, Ratio(1, 1))
    /\ SameRatio(center.y, Ratio(1, 1))

\* The sum of one coordinate over an array, each value counted as often as it occurs.
RECURSIVE WeightedSum(_, _, _)
WeightedSum(arr, axis, v) ==
    IF v < 0 THEN 0
    ELSE v * Cardinality({i \in 1..Len(arr) : arr[i][axis] = v}) + WeightedSum(arr, axis, v - 1)

\* C27: getGalaxyCenterOfMass returns {0,0} for an empty array and otherwise the
\* arithmetic mean of the coordinates, repeated locations counted as often as
\* they occur.
C27_ArithmeticMean ==
    (query = "getGalaxyCenterOfMass") =>
        IF passed = <<>> THEN center = Origin
        ELSE /\ SameRatio(center.x, Ratio(WeightedSum(passed, "x", MaxCoordinate + 1),
                                          Len(passed)))
             /\ SameRatio(center.y, Ratio(WeightedSum(passed, "y", MaxCoordinate + 1),
                                          Len(passed)))

C27_Witness ==
    /\ query = "getGalaxyCenterOfMass"
    /\ passed = <<[x |-> 0, y |-> 0], [x |-> 0, y |-> 0], [x |-> 2, y |-> 2]>>
    /\ SameRatio(center.x, Ratio(2, 3))
    /\ SameRatio(center.y, Ratio(2, 3))

\* Slots of a game that a user occupies.
Occupied(g) == {i \in 1..Len(g.players) : g.players[i].userId # Null}

\* A step that is a GameService call of the given kind.
Calls(op) == clock' = clock + 1 /\ lastCall'.op = op

Rejected == thrown' = "ValidationError" /\ gameDoc' = gameDoc

\* The cases in which a join is to be rejected.
JoinBarred(g, userId, playerId) ==
    \/ g.state.startDate # Null
    \/ g.state.endDate # Null
    \/ \E i \in 1..Len(g.players) : g.players[i].userId = userId
    \/ ~\E i \in 1..Len(g.players) : g.players[i]._id = playerId
    \/ \E i \in 1..Len(g.players) :
          g.players[i]._id = playerId /\ g.players[i].userId # Null

\* C29: startDate is set exactly by the join that fills the last slot; a join is
\* rejected without any change when the game has started or finished, the user is
\* already in, the slot does not exist or is taken; no user holds two slots, no
\* occupied slot passes to another user, and after the start every quit is rejected.
C29_StartLatch ==
    /\ [][/\ (gameDoc'.state.startDate # gameDoc.state.startDate) =>
                 /\ Calls("join") /\ thrown' = ""
                 /\ gameDoc.state.startDate = Null
                 /\ gameDoc'.state.startDate = clock
                 /\ Cardinality(Occupied(gameDoc)) = gameDoc.playerLimit - 1
                 /\ Cardinality(Occupied(gameDoc')) = gameDoc.playerLimit
          /\ Calls("join") =>
                 IF JoinBarred(gameDoc, lastCall'.userId, lastCall'.playerId)
                 THEN Rejected
                 ELSE /\ thrown' = ""
                      /\ \A i \in 1..Len(gameDoc.players) :
                            gameDoc'.players[i].userId =
                                IF gameDoc.players[i]._id = lastCall'.playerId
                                THEN lastCall'.userId
                                ELSE gameDoc.players[i].userId
                      /\ (Cardinality(Occupied(gameDoc')) = gameDoc.playerLimit)
                             <=> (gameDoc'.state.startDate # Null)
          /\ (Calls("quit") /\ gameDoc.state.startDate # Null) => Rejected
          /\ \A i \in 1..Len(gameDoc.players) :
                (gameDoc.players[i].userId # Null
                     /\ gameDoc'.players[i].userId # gameDoc.players[i].userId)
                => (gameDoc'.players[i].userId = Null /\ Calls("quit"))]_vars
    /\ [](\A i, j \in 1..Len(gameDoc.players) :
             (gameDoc.players[i].userId # Null
                  /\ gameDoc.players[i].userId = gameDoc.players[j].userId) => i = j)

C29_Witness ==
    /\ gameDoc.playerLimit = 3
    /\ gameDoc.state.startDate = 5
    /\ lastCall.op = "quit"
    /\ thrown = "ValidationError"
    /\ clock = 7
    /\ Cardinality(Occupied(gameDoc)) = 3

\* Players of a game that are not defeated.
Undefeated(g) == {i \in 1..Len(g.players) : ~g.players[i].defeated}

\* The cases in which a concession is to succeed.
MayConcede(g, userId) ==
    /\ \E i \in 1..Len(g.players) : g.players[i].userId = userId /\ ~g.players[i].defeated
    /\ g.state.startDate # Null
    /\ g.state.endDate = Null

\* C30: a concession succeeds only for a participating, undefeated player in a
\* started, unfinished game and is otherwise rejected without any change; the game
\* ends exactly when the concession leaves one undefeated player, who is recorded
\* as the winner; after the end no concession succeeds and the winner stays.
C30_ConcedeDefeat ==
    [][/\ Calls("concedeDefeat") =>
              IF MayConcede(gameDoc, lastCall'.userId)
              THEN /\ thrown' = ""
                   /\ \A i \in 1..Len(gameDoc.players) :
                         gameDoc'.players[i] =
                             IF gameDoc.players[i].userId = lastCall'.userId
                             THEN [gameDoc.players[i] EXCEPT !.defeated = TRUE]
                             ELSE gameDoc.players[i]
                   /\ (gameDoc'.state.endDate # Null)
                          <=> (Cardinality(Undefeated(gameDoc')) = 1)
                   /\ IF Cardinality(Undefeated(gameDoc')) = 1
                      THEN /\ gameDoc'.state.paused
                           /\ gameDoc'.state.endDate = clock
                           /\ \E i \in Undefeated(gameDoc') :
                                 gameDoc'.state.winner = gameDoc'.players[i]._id
                      ELSE gameDoc'.state = gameDoc.state
              ELSE Rejected
       /\ (gameDoc.state.endDate # Null) =>
              /\ gameDoc' = gameDoc
              /\ Calls("concedeDefeat") => thrown' = "ValidationError"
       /\ (gameDoc'.state.endDate # gameDoc.state.endDate
               \/ gameDoc'.state.winner # gameDoc.state.winner)
              => (Calls("concedeDefeat") /\ thrown' = "")]_vars

C30_Witness ==
    /\ gameDoc.playerLimit = 3
    /\ gameDoc.state.endDate = 5
    /\ gameDoc.state.winner = 2
    /\ gameDoc.players[2].userId = 3
    /\ Undefeated(gameDoc) = {2}
    /\ lastCall.op = "concedeDefeat"
    /\ lastCall.userId = 3
    /\ thrown = "ValidationError"

====
